---- MODULE Spec2Model ----
(***************************************************************************)
(* A model of the OCR dataset degradation pipeline                         *)
(* (src/src/degrade_dataset.py and the helpers it calls in utils.py,       *)
(* transformations.py, noise.py and metrics.py).                           *)
(*                                                                         *)
(* Units.  Floating-point configuration values are held as integers in     *)
(* thousandths (0.66 -> 660); angles are whole degrees; sines and cosines  *)
(* are integers in ten-thousandths, read from a table.  Divisions and      *)
(* roundings are computed exactly on these rationals: int() truncates      *)
(* towards zero and round() rounds half to even, as Python does.           *)
(*                                                                         *)
(* Pixel buffers are symbolic: a buffer is the key of the source image it  *)
(* was decoded from, its width and height, the list of operations applied  *)
(* to it (each with its bound parameters and the state of the numpy        *)
(* generator it sampled its noise from) and whether it has been collapsed  *)
(* to grayscale.  Two buffers are equal in the model only if they were     *)
(* produced by the same operations with the same random samples.           *)
(***************************************************************************)
EXTENDS Integers, Sequences, FiniteSets, TLC

VARIABLES
    disk_in,          \* the input side of the file system
    args,             \* the arguments of generate_degraded_dataset
    pc,               \* position inside generate_degraded_dataset
    run,              \* which of the two consecutive calls is executing
    pyRand,           \* state of Python's global `random` generator
    npRand,           \* state of numpy's global generator
    image_filenames,  \* the sorted, truncated list of annotation keys
    idx,              \* enumerate() position in image_filenames
    cur,              \* the local variables of the current loop iteration
    output_index,     \* the in-memory output index
    out,              \* the output side of the file system
    hist,             \* history: what this call and the previous one did
    fin,              \* inputs of a pure function under test
    fout,             \* its result
    fpc               \* which pure function has been applied

vars == <<disk_in, args, pc, run, pyRand, npRand, image_filenames, idx, cur,
          output_index, out, hist, fin, fout, fpc>>

orchVars == <<disk_in, args, pc, run, pyRand, npRand, image_filenames, idx, cur,
              output_index, out, hist>>

pureVars == <<fin, fout, fpc>>

(***************************************************************************)
(* Bounds of the model.                                                    *)
(***************************************************************************)
MaxKeys == 2       \* annotation keys in the corpus
RandMod == 3       \* states of each pseudo-random generator
MaxLen == 3        \* length of the strings given to the edit distance
MaxSide == 4       \* largest image side given to the geometry functions
MaxNoiseSide == 3  \* largest image side given to salt-and-pepper noise
MaxWords == 3      \* words of the image given to the text builder
MaxPlaced == 3     \* words counted per clear image (the count saturates)

(***************************************************************************)
(* Optional values (Python's None).                                        *)
(***************************************************************************)
None == [some |-> FALSE, v |-> 0]
Some(x) == [some |-> TRUE, v |-> x]

Min2(a, b) == IF a <= b THEN a ELSE b
Max2(a, b) == IF a >= b THEN a ELSE b
Abs(a) == IF a < 0 THEN -a ELSE a

RECURSIVE SeqMin(_)
SeqMin(s) == IF Len(s) = 1 THEN s[1] ELSE Min2(s[1], SeqMin(Tail(s)))

RECURSIVE SeqMax(_)
SeqMax(s) == IF Len(s) = 1 THEN s[1] ELSE Max2(s[1], SeqMax(Tail(s)))

\* Python's int() on the rational n / d (d > 0): truncation towards zero.
PyInt(n, d) == IF n >= 0 THEN n \div d ELSE -((-n) \div d)

\* Python's round() on the rational n / d (d > 0): nearest integer, ties to
\* the even neighbour.
PyRound(n, d) ==
    LET q == n \div d
        r == n - q * d
    IN  IF 2 * r < d THEN q
        ELSE IF 2 * r > d THEN q + 1
        ELSE IF q % 2 = 0 THEN q ELSE q + 1

(***************************************************************************)
(* Trigonometry: sin and cos of the angles the model uses, times TrigOne.  *)
(***************************************************************************)
TrigOne == 10000

Angles == {-90, -5, 0, 5, 90}

Sin(angle) ==
    CASE angle = 0 -> 0
      [] angle = 5 -> 872
      [] angle = -5 -> -872
      [] angle = 90 -> 10000
      [] angle = -90 -> -10000

Cos(angle) ==
    CASE angle = 0 -> 10000
      [] angle = 5 -> 9962
      [] angle = -5 -> 9962
      [] angle = 90 -> 0
      [] angle = -90 -> 0

(***************************************************************************)
(* utils.py                                                                *)
(***************************************************************************)
\* scale_point2d: round(src / orig * target) on each axis.
scale_point2d(src_point, original_size, target_size) ==
    << PyRound(src_point[1] * target_size[1], original_size[1]),
       PyRound(src_point[2] * target_size[2], original_size[2]) >>

\* The expanded canvas rotate_point2d_no_crop computes from img_size.
no_crop_canvas(angle, img_size) ==
    LET width == img_size[1]
        height == img_size[2]
    IN  << PyInt(height * Abs(Sin(angle)) + width * Cos(angle), TrigOne),
           PyInt(height * Cos(angle) + width * Abs(Sin(angle)), TrigOne) >>

\* Twice the translation rotate_point2d_no_crop adds:
\* (new_width / 2 - center_x, new_height / 2 - center_y).
no_crop_offset2(angle, center, img_size) ==
    << no_crop_canvas(angle, img_size)[1] - 2 * center[1],
       no_crop_canvas(angle, img_size)[2] - 2 * center[2] >>

\* rotate_point2d_no_crop: rotate about center, shift into the expanded
\* canvas, round.  Numerators are in units of 1 / (2 * TrigOne).
rotate_point2d_no_crop(src_point, angle, center, img_size) ==
    LET dx == src_point[1] - center[1]
        dy == src_point[2] - center[2]
        rx == dx * Cos(angle) + dy * Sin(angle) + center[1] * TrigOne
        ry == (-dx) * Sin(angle) + dy * Cos(angle) + center[2] * TrigOne
        off == no_crop_offset2(angle, center, img_size)
    IN  << PyRound(2 * rx + off[1] * TrigOne, 2 * TrigOne),
           PyRound(2 * ry + off[2] * TrigOne, 2 * TrigOne) >>

(***************************************************************************)
(* transformations.py                                                      *)
(***************************************************************************)
\* A decoded image that has had nothing applied to it yet.
NoImage == [src |-> 0, w |-> 0, h |-> 0, ops |-> <<>>, gray |-> FALSE]

Applied(image, op, n) ==
    [image EXCEPT !.ops = Append(@, [op |-> op.op, p1 |-> op.p1, p2 |-> op.p2,
                                     p3 |-> op.p3, n |-> n])]

\* resize: cv.resize(image, (width, height), interpolation).
resize(image, op) ==
    [Applied(image, op, -1) EXCEPT !.w = op.p1, !.h = op.p2]

\* The canvas rotate computes from the shape of the buffer it is given.
rotate_canvas(image, angle) ==
    << PyInt(image.h * Abs(Sin(angle)) + image.w * Cos(angle), TrigOne),
       PyInt(image.h * Cos(angle) + image.w * Abs(Sin(angle)), TrigOne) >>

\* Twice the translation rotate adds to its matrix:
\* (new_width / 2 - x, new_height / 2 - y).
rotate_offset2(image, angle, center) ==
    << rotate_canvas(image, angle)[1] - 2 * center[1],
       rotate_canvas(image, angle)[2] - 2 * center[2] >>

\* rotate: warp the buffer into the expanded canvas.
rotate(image, angle, center) ==
    [Applied(image, [op |-> "rotate", p1 |-> angle, p2 |-> center[1],
                     p3 |-> center[2]], -1)
        EXCEPT !.w = rotate_canvas(image, angle)[1],
               !.h = rotate_canvas(image, angle)[2]]

(***************************************************************************)
(* metrics.py                                                              *)
(***************************************************************************)
Min3(a, b, c) == Min2(a, Min2(b, c))

\* distance_mat without the replace_cost term of line 20.
distance_mat_no_replace(ground_truth_text, predicted_text) ==
    LET D[i \in 0..Len(ground_truth_text), j \in 0..Len(predicted_text)] ==
            IF i = 0 THEN j
            ELSE IF j = 0 THEN i
            ELSE IF ground_truth_text[i] = predicted_text[j]
                 THEN D[i - 1, j - 1]
                 ELSE Min2(D[i, j - 1], D[i - 1, j]) + 1
    IN  D

\* The dynamic-programming table of calculate_edit_distance.
distance_mat(ground_truth_text, predicted_text) ==
    LET D[i \in 0..Len(ground_truth_text), j \in 0..Len(predicted_text)] ==
            IF i = 0 THEN j
            ELSE IF j = 0 THEN i
            ELSE IF ground_truth_text[i] = predicted_text[j]
                 THEN D[i - 1, j - 1]
                 ELSE Min3(D[i, j - 1], D[i - 1, j], D[i - 1, j - 1]) + 1
    IN  D

calculate_edit_distance(ground_truth_text, predicted_text) ==
    distance_mat(ground_truth_text, predicted_text)
        [Len(ground_truth_text), Len(predicted_text)]

\* calculate_relative_edit_distance: edit_distance / len(ground_truth_text),
\* kept as the fraction num / den; the division raises on a zero length.
calculate_relative_edit_distance(ground_truth_text, predicted_text) ==
    IF Len(ground_truth_text) = 0
    THEN [raised |-> "ZeroDivisionError", num |-> 0, den |-> 0]
    ELSE [raised |-> "none",
          num |-> calculate_edit_distance(ground_truth_text, predicted_text),
          den |-> Len(ground_truth_text)]

(***************************************************************************)
(* noise.py and blur_images.py: the operations of the pipeline             *)
(***************************************************************************)
Result(image, np, raised) == [image |-> image, np |-> np, raised |-> raised]

\* The step a generator's state takes on one sample.
NextRand(s) == (s + 1) % RandMod

RECURSIVE Advance(_, _)
Advance(s, k) == IF k = 0 THEN s ELSE Advance(NextRand(s), k - 1)

\* ndarray.astype('uint8') on the float x10 / 10: the fraction is dropped;
\* a value that then lies outside 0..255 has no defined result in the C
\* conversion numpy compiles to, and comes out reduced modulo 256 on some
\* builds and pinned to the nearer end of the range on others.
astype_uint8(x10, cast) ==
    LET t == PyInt(x10, 10)
    IN  IF 0 <= t /\ t <= 255 THEN t
        ELSE IF cast = "wraps" THEN t % 256
        ELSE IF t < 0 THEN 0 ELSE 255

\* Lines 62 and 70 on one pixel: (image + normal(...)).astype('uint8'), the
\* noise term given in tenths.
gaussian_pixel(v, n10, cast) == astype_uint8(10 * v + n10, cast)

\* The values numpy.random.randint(low, high, n) draws from: low..high - 1.
np_randint_values(low, high) == low..(high - 1)

\* The pixel positions lines 56 and 60 can index.
salt_pepper_range(height, width) ==
    np_randint_values(0, height - 1) \X np_randint_values(0, width - 1)

\* salt_pepper_counts with the pepper count taken from the whole amount.
salt_pepper_counts_unsplit(height, width, amount, salt_vs_pepper) ==
    [salt |-> PyInt(height * width * amount * salt_vs_pepper, 1000000),
     pepper |-> PyInt(height * width * amount, 1000)]

\* Lines 52-58: num_salt_pixels and num_pepper_pixels (ratios in thousandths).
salt_pepper_counts(height, width, amount, salt_vs_pepper) ==
    [salt |-> PyInt(height * width * amount * salt_vs_pepper, 1000000),
     pepper |-> PyInt(height * width * amount * (1000 - salt_vs_pepper), 1000000)]

\* The exception salt-and-pepper noise raises: the range check of lines
\* 48-49, then randint with an empty range (height - 1 <= 0 or
\* width - 1 <= 0), which raises whenever it is asked for a sample and, on
\* numpy versions that check the range before the sample count (strict),
\* also when asked for none.
salt_pepper_error(height, width, amount, salt_vs_pepper, strict) ==
    LET n == salt_pepper_counts(height, width, amount, salt_vs_pepper)
    IN  IF ~(0 <= salt_vs_pepper /\ salt_vs_pepper <= 1000
             /\ 0 <= amount /\ amount <= 1000)
        THEN "ValueError"
        ELSE IF (height - 1 <= 0 \/ width - 1 <= 0)
                /\ (strict \/ n.salt > 0 \/ n.pepper > 0)
        THEN "ValueError"
        ELSE "none"

\* Lines 56 and 60 on the pixels: salt at the positions in salt, then pepper
\* at the positions in pepper; astype('uint8') leaves 0..255 as they are.
salt_pepper_pixels(pixels, salt, pepper) ==
    [pos \in DOMAIN pixels |->
        IF pos \in pepper THEN 0 ELSE IF pos \in salt THEN 255 ELSE pixels[pos]]

\* noisify on a buffer: salt-and-pepper checks its ratios, then samples row
\* and column indices with randint(0, height - 1, n) and
\* randint(0, width - 1, n) for salt and for pepper; Gaussian and speckle
\* noise sample one field with np.random.normal.
noisify(image, op, np) ==
    IF op.op = "salt_pepper"
    THEN IF salt_pepper_error(image.h, image.w, op.p2, op.p1, TRUE) # "none"
         THEN Result(image, np, "ValueError")
         ELSE Result(Applied(image, op, np), Advance(np, 4), "none")
    ELSE Result(Applied(image, op, np), Advance(np, 1), "none")

\* gaussian_blur, box_blur, max_filter, min_filter: a PIL filter of the bound
\* radius; the buffer keeps its size.
blur(image, op) == Applied(image, op, -1)

\* One operation called on a buffer (BaseImageOperation.__call__).
call_operation(image, op, np) ==
    CASE op.op \in {"gaussian_noise", "speckle", "salt_pepper"} ->
            noisify(image, op, np)
      [] op.op \in {"gaussian_blur", "box_blur", "max_filter", "min_filter"} ->
            Result(blur(image, op), np, "none")
      [] op.op = "resize" -> Result(resize(image, op), np, "none")

\* _apply_operations: the operations in list order, each on the result of
\* the one before; an exception ends the loop.
RECURSIVE apply_operations(_, _, _)
apply_operations(image, operations, np) ==
    IF operations = <<>> THEN Result(image, np, "none")
    ELSE LET r == call_operation(image, Head(operations), np)
         IN  IF r.raised # "none" THEN r
             ELSE apply_operations(r.image, Tail(operations), r.np)

(***************************************************************************)
(* degrade_dataset.py: helpers                                             *)
(***************************************************************************)
\* A word annotation; an absent, None or empty field is the empty sequence.
WordData(word, corners, quad, bbox, xy) ==
    [word |-> word, corners |-> corners, quad |-> quad, bbox |-> bbox, xy |-> xy]

\* _get_word_corners testing the four coordinates for truth instead of the
\* keys for presence: a box with a zero coordinate counts as absent.
get_word_corners_truthy_coordinates(word_data) ==
    IF word_data.corners # <<>> THEN word_data.corners
    ELSE IF word_data.quad # <<>> THEN word_data.quad
    ELSE LET bbox == IF word_data.bbox # <<>> THEN word_data.bbox
                     ELSE word_data.xy
         IN  IF bbox = <<>> \/ \E i \in 1..Len(bbox) : bbox[i] = 0 THEN <<>>
             ELSE << <<bbox[1], bbox[2]>>, <<bbox[3], bbox[2]>>,
                     <<bbox[3], bbox[4]>>, <<bbox[1], bbox[4]>> >>

\* _get_word_corners
get_word_corners(word_data) ==
    IF word_data.corners # <<>> THEN word_data.corners
    ELSE IF word_data.quad # <<>> THEN word_data.quad
    ELSE LET bbox == IF word_data.bbox # <<>> THEN word_data.bbox
                     ELSE word_data.xy
         IN  IF bbox = <<>> THEN <<>>
             ELSE << <<bbox[1], bbox[2]>>, <<bbox[3], bbox[2]>>,
                     <<bbox[3], bbox[4]>>, <<bbox[1], bbox[4]>> >>

\* _extract_image_text
RECURSIVE extract_image_text(_)
extract_image_text(words) ==
    IF words = <<>> THEN <<"FF">>
    ELSE LET word == Head(words).word
         IN  (IF \A i \in 1..Len(word) : word[i] # "NL"
              THEN word \o <<" ">> ELSE word)
             \o extract_image_text(Tail(words))

\* Lines 91-96: what _project_word_boxes passes to rotate_point2d_no_crop.
no_crop_args(target_size, angle) ==
    [angle |-> angle,
     center |-> <<target_size[1] \div 2, target_size[2] \div 2>>,
     img_size |-> target_size]

\* The corners of one word, projected (lines 88-97).
projected_corners(source_corners, source_size, target_size, angle) ==
    LET a == no_crop_args(target_size, angle)
    IN  [i \in 1..Len(source_corners) |->
            rotate_point2d_no_crop(
                scale_point2d(source_corners[i], source_size, target_size),
                a.angle, a.center, a.img_size)]

\* corners_bbox read off the first and third corner, as a box would be
\* re-derived from an axis-aligned rectangle.
corners_bbox_diagonal(corners) ==
    <<corners[1][1], corners[1][2], corners[3][1], corners[3][2]>>

\* The bounding box emitted for projected corners (lines 99-104).
corners_bbox(corners) ==
    LET xs == [i \in 1..Len(corners) |-> corners[i][1]]
        ys == [i \in 1..Len(corners) |-> corners[i][2]]
    IN  <<SeqMin(xs), SeqMin(ys), SeqMax(xs), SeqMax(ys)>>

\* _project_word_boxes
RECURSIVE project_word_boxes(_, _, _, _)
project_word_boxes(words, source_size, target_size, angle) ==
    IF words = <<>> THEN <<>>
    ELSE LET source_corners == get_word_corners(Head(words))
             rest == project_word_boxes(Tail(words), source_size, target_size, angle)
             corners == projected_corners(source_corners, source_size,
                                          target_size, angle)
         IN  IF source_corners = <<>> THEN rest
             ELSE << [word |-> Head(words).word,
                      src |-> source_corners,
                      corners |-> corners,
                      bbox |-> corners_bbox(corners)] >> \o rest

\* _validate_degradation_config: the message of the ValueError it raises.
validate_degradation_config(c) ==
    IF c.resize_min <= 0 \/ c.resize_max <= 0 \/ c.resize_min > c.resize_max
    THEN "Invalid resize range specified."
    ELSE IF c.gaussian_mean_min > c.gaussian_mean_max
    THEN "Invalid gaussian mean range specified."
    ELSE IF c.gaussian_std_min > c.gaussian_std_max \/ c.gaussian_std_min < 0
            \/ c.gaussian_std_max < 0
    THEN "Invalid gaussian stddev range specified."
    ELSE IF c.speckle_std < 0 \/ c.speckle_std_alt < 0
    THEN "Invalid speckle stddev specified."
    ELSE IF c.salt_vs_pepper_min > c.salt_vs_pepper_max
    THEN "Invalid salt-vs-pepper range specified."
    ELSE IF c.salt_pepper_amount_min > c.salt_pepper_amount_max
            \/ c.salt_pepper_amount_min < 0 \/ c.salt_pepper_amount_max < 0
    THEN "Invalid salt-pepper amount range specified."
    ELSE "none"

\* random.uniform(a, b) = a + (b - a) * random(); the sample of state s is
\* one of 0, 1/2, 1.
uniform(a, b, s) == a + (((b - a) * (s % 3)) \div 2)

\* random.randint(a, b)
randint(a, b, s) == a + (s % (b - a + 1))

\* _pick_radius: random.randrange(min_value, max_value + 1, step)
pick_radius(min_value, max_value, step, s) ==
    IF step <= 0 THEN [raised |-> "ValueError", value |-> 0]
    ELSE IF min_value > max_value THEN [raised |-> "ValueError", value |-> 0]
    ELSE [raised |-> "none",
          value |-> min_value
                    + step * (s % (((max_value - min_value) \div step) + 1))]

(***************************************************************************)
(* The inputs: configuration, corpus and call arguments                    *)
(***************************************************************************)
\* The defaults of generate_degraded_dataset's signature.
DefaultCfg ==
    [max_rotate |-> 5, resize_min |-> 660, resize_max |-> 1500,
     use_gaussian_noise |-> TRUE, use_speckle |-> TRUE, use_salt_pepper |-> TRUE,
     use_gaussian_blur |-> TRUE, use_box_blur |-> TRUE, use_max_filter |-> TRUE,
     use_min_filter |-> TRUE, use_resize |-> TRUE, use_rotate |-> TRUE,
     gaussian_mean_min |-> 500, gaussian_mean_max |-> 900,
     gaussian_std_min |-> 50, gaussian_std_max |-> 90,
     speckle_mean |-> 0, speckle_std |-> 1,
     speckle_mean_alt |-> 1000, speckle_std_alt |-> 0,
     salt_vs_pepper_min |-> 0, salt_vs_pepper_max |-> 1000,
     salt_pepper_amount_min |-> 0, salt_pepper_amount_max |-> 20,
     gaussian_blur_radius_min |-> 0, gaussian_blur_radius_max |-> 2,
     box_blur_radius_min |-> 1, box_blur_radius_max |-> 2,
     max_filter_radius_min |-> 1, max_filter_radius_max |-> 3,
     min_filter_radius_min |-> 1, min_filter_radius_max |-> 3,
     run_tesseract |-> TRUE]

\* Every operation family disabled.
AllOffCfg ==
    [DefaultCfg EXCEPT !.use_gaussian_noise = FALSE, !.use_speckle = FALSE,
                       !.use_salt_pepper = FALSE, !.use_gaussian_blur = FALSE,
                       !.use_box_blur = FALSE, !.use_max_filter = FALSE,
                       !.use_min_filter = FALSE, !.use_resize = FALSE,
                       !.use_rotate = FALSE]

\* Single-parameter changes of the default configuration: rotation
\* magnitudes, ranges that break an invariant, ratios above 1, toggles.
Overrides ==
    { <<"max_rotate", 5>>, <<"max_rotate", 0>>, <<"max_rotate", 90>>,
      <<"resize_min", 0>>, <<"resize_min", 2000>>, <<"resize_max", -500>>,
      <<"gaussian_mean_min", 950>>,
      <<"gaussian_std_min", 100>>, <<"gaussian_std_min", -10>>,
      <<"speckle_std", -1>>, <<"speckle_std_alt", -1>>,
      <<"salt_vs_pepper_min", 1500>>, <<"salt_vs_pepper_max", 2000>>,
      <<"salt_pepper_amount_min", 30>>, <<"salt_pepper_amount_min", -5>>,
      <<"gaussian_blur_radius_min", 3>>, <<"box_blur_radius_min", 3>>,
      <<"max_filter_radius_min", 5>>, <<"min_filter_radius_min", 5>>,
      <<"use_resize", FALSE>>, <<"use_rotate", FALSE>>,
      <<"run_tesseract", FALSE>> }

\* Single-parameter changes of the configuration with every family off.
OffOverrides ==
    { <<"max_rotate", 5>>, <<"run_tesseract", FALSE>>,
      <<"box_blur_radius_min", 3>>,
      <<"use_gaussian_noise", TRUE>>, <<"use_salt_pepper", TRUE>>,
      <<"use_gaussian_blur", TRUE>>, <<"use_min_filter", TRUE>>,
      <<"use_resize", TRUE>>, <<"use_rotate", TRUE>> }

\* Salt-and-pepper noise alone, with a ratio range that reaches above 1.
SaltOnlyCfg ==
    [AllOffCfg EXCEPT !.use_salt_pepper = TRUE, !.salt_vs_pepper_max = 2000]

Configs ==
    { [DefaultCfg EXCEPT ![o[1]] = o[2]] : o \in Overrides }
    \cup { [AllOffCfg EXCEPT ![o[1]] = o[2]] : o \in OffOverrides }
    \cup { SaltOnlyCfg }

Letters == {"a", "b"}

\* The decoded size and the word annotations of the image of key k.
SourceSize(k) ==
    CASE k % 3 = 1 -> <<4, 4>>
      [] k % 3 = 2 -> <<3, 3>>
      [] OTHER -> <<4, 3>>

SourceWords(k) ==
    CASE k % 3 = 1 ->
            << WordData(<<"a", "b">>, << <<1, 1>>, <<3, 1>>, <<3, 2>>, <<1, 2>> >>,
                        <<>>, <<>>, <<>>) >>
      [] k % 3 = 2 ->
            << WordData(<<"a">>, <<>>, <<>>, <<0, 0, 2, 1>>, <<>>),
               WordData(<<"b", "NL">>, <<>>,
                        << <<1, 1>>, <<3, 1>>, <<3, 3>>, <<1, 3>> >>, <<>>, <<>>) >>
      [] OTHER ->
            << WordData(<<"b">>, <<>>, <<>>, <<>>, <<1, 0, 3, 3>>),
               WordData(<<"a">>, <<>>, <<>>, <<>>, <<>>) >>

\* The state of the file system the call reads: whether images_dir is a
\* directory, whether the annotations file exists, the keys 1..n of the
\* annotation document and, for each, the state of its image file.
Corpora ==
    UNION { { [images_dir |-> TRUE, annotations |-> TRUE, n |-> n, status |-> st] :
                st \in [1..n -> {"ok", "missing", "undecodable"}] } :
            n \in 0..MaxKeys }

DiskStates ==
    Corpora \cup
    { [images_dir |-> d, annotations |-> a, n |-> MaxKeys,
       status |-> [k \in 1..MaxKeys |-> "ok"]] : d \in BOOLEAN, a \in BOOLEAN }

ArgSets ==
    { [num_images |-> ni, seed |-> sd, cfg |-> c] :
        ni \in {None, Some(1)}, sd \in {None, Some(1)}, c \in Configs }

\* An index file left by an earlier, successful call.
OldIndex == [k \in {-1} |-> [source_image |-> -1]]

(***************************************************************************)
(* degrade_dataset.py: generate_degraded_dataset                           *)
(***************************************************************************)
NoneSeq == [some |-> FALSE, v |-> <<>>]

Op(name, p1, p2, p3) == [op |-> name, p1 |-> p1, p2 |-> p2, p3 |-> p3]

Built(ops, rand, raised) == [ops |-> ops, rand |-> rand, raised |-> raised]

\* Families with the resize block moved in front of the noise blocks.
Families_resize_first ==
    << "resize", "gaussian_noise", "speckle", "salt_pepper", "gaussian_blur",
       "box_blur", "max_filter", "min_filter" >>

Families ==
    << "gaussian_noise", "speckle", "salt_pepper", "gaussian_blur", "box_blur",
       "max_filter", "min_filter", "resize" >>

Radius(name, r, s) ==
    IF r.raised # "none" THEN Built(<<>>, s, r.raised)
    ELSE Built(<<Op(name, r.value, 0, 0)>>, NextRand(s), "none")

\* One `if use_...:` block of lines 253-294: the operations it appends, the
\* state of `random` after its samples, and the exception it raises.
family_ops(f, c, s, target_size) ==
    CASE f = "gaussian_noise" ->
            IF c.use_gaussian_noise
            THEN Built(<<Op(f, uniform(c.gaussian_mean_min, c.gaussian_mean_max, s),
                            uniform(c.gaussian_std_min, c.gaussian_std_max,
                                    NextRand(s)), 0)>>,
                       Advance(s, 2), "none")
            ELSE Built(<<>>, s, "none")
      [] f = "speckle" ->
            IF c.use_speckle
            THEN Built(<<Op(f, c.speckle_mean, c.speckle_std, 0),
                         Op(f, c.speckle_mean_alt, c.speckle_std_alt, 0)>>,
                       s, "none")
            ELSE Built(<<>>, s, "none")
      [] f = "salt_pepper" ->
            IF c.use_salt_pepper
            THEN Built(<<Op(f, uniform(c.salt_vs_pepper_min, c.salt_vs_pepper_max, s),
                            uniform(c.salt_pepper_amount_min,
                                    c.salt_pepper_amount_max, NextRand(s)), 0)>>,
                       Advance(s, 2), "none")
            ELSE Built(<<>>, s, "none")
      [] f = "gaussian_blur" ->
            IF c.use_gaussian_blur
            THEN Radius(f, pick_radius(c.gaussian_blur_radius_min,
                                       c.gaussian_blur_radius_max, 2, s), s)
            ELSE Built(<<>>, s, "none")
      [] f = "box_blur" ->
            IF c.use_box_blur
            THEN Radius(f, pick_radius(c.box_blur_radius_min,
                                       c.box_blur_radius_max, 1, s), s)
            ELSE Built(<<>>, s, "none")
      [] f = "max_filter" ->
            IF c.use_max_filter
            THEN Radius(f, pick_radius(c.max_filter_radius_min,
                                       c.max_filter_radius_max, 2, s), s)
            ELSE Built(<<>>, s, "none")
      [] f = "min_filter" ->
            IF c.use_min_filter
            THEN Radius(f, pick_radius(c.min_filter_radius_min,
                                       c.min_filter_radius_max, 2, s), s)
            ELSE Built(<<>>, s, "none")
      [] f = "resize" ->
            IF c.use_resize
            THEN Built(<<Op(f, target_size[1], target_size[2], randint(0, 2, s))>>,
                       NextRand(s), "none")
            ELSE Built(<<>>, s, "none")

\* Lines 253-294: the blocks in program order.
RECURSIVE build_ops(_, _, _, _)
build_ops(families, c, s, target_size) ==
    IF families = <<>> THEN Built(<<>>, s, "none")
    ELSE LET first == family_ops(Head(families), c, s, target_size)
             rest == build_ops(Tail(families), c, first.rand, target_size)
         IN  IF first.raised # "none" THEN first
             ELSE Built(first.ops \o rest.ops, rest.rand, rest.raised)

\* Lines 245-251: the target size.
target_size_of(c, source_size, s) ==
    IF c.use_resize
    THEN << Max2(1, PyInt(source_size[1] * uniform(c.resize_min, c.resize_max, s),
                          1000)),
            Max2(1, PyInt(source_size[2]
                          * uniform(c.resize_min, c.resize_max, NextRand(s)),
                          1000)) >>
    ELSE source_size

\* image_filenames[:num_images]
truncate(keys, num_images) ==
    IF ~num_images.some THEN keys
    ELSE IF num_images.v >= 0
         THEN SubSeq(keys, 1, Min2(num_images.v, Len(keys)))
         ELSE SubSeq(keys, 1, Max2(0, Len(keys) + num_images.v))

\* random.seed(seed) and np.random.seed(seed): the state a seed fixes.
seeded(seed) == seed % RandMod

\* The OCR collaborator, tesseract.image_to_string: a fixed function of the
\* buffer it is given.
image_to_string(image) ==
    CASE Len(image.ops) % 3 = 0 -> <<"a", "b", " ", "NL", "FF">>
      [] Len(image.ops) % 3 = 1 -> <<"a", "NL", "b">>
      [] OTHER -> <<>>

\* str.split('\n')
RECURSIVE split_lines(_, _)
split_lines(text, line) ==
    IF text = <<>> THEN <<line>>
    ELSE IF Head(text) = "NL" THEN <<line>> \o split_lines(Tail(text), <<>>)
    ELSE split_lines(Tail(text), Append(line, Head(text)))

\* cv.PSNR(source_image, resized_to_source), kept as its two arguments.
PSNR(a, b) == [ref |-> a, test |-> b]

\* cv.cvtColor(image, COLOR_BGR2GRAY)
cvtColor(image) == [image EXCEPT !.gray = TRUE]

\* Line 306: what RotateOperation passes to rotate, which reads img_size
\* off the shape of the buffer it is given (transformations.py line 23).
rotate_args(degraded_image, angle, target_size) ==
    [angle |-> angle,
     center |-> <<target_size[1] \div 2, target_size[2] \div 2>>,
     img_size |-> <<degraded_image.w, degraded_image.h>>]

\* Line 306 and line 309: the buffer handed on to the grayscale conversion.
rotated(c, degraded_image, angle, target_size) ==
    IF c.use_rotate
    THEN LET a == rotate_args(degraded_image, angle, target_size)
         IN  rotate(degraded_image, a.angle, a.center)
    ELSE degraded_image

\* project_args with the source size passed as target_size.
project_args_source_size(c) ==
    [image_name |-> c.image_name,
     source_size |-> <<c.source_image.w, c.source_image.h>>,
     target_size |-> <<c.source_image.w, c.source_image.h>>,
     angle |-> c.angle]

\* Lines 322-328: the arguments of the call of _project_word_boxes.
project_args(c) ==
    [image_name |-> c.image_name,
     source_size |-> <<c.source_image.w, c.source_image.h>>,
     target_size |-> c.target_size,
     angle |-> c.angle]

Put(d, k, x) == [y \in DOMAIN d \cup {k} |-> IF y = k THEN x ELSE d[y]]

NoLocals ==
    [stage |-> "none", image_name |-> 0, source_image |-> NoImage,
     target_size |-> <<0, 0>>, degradation_ops |-> <<>>,
     degraded_image |-> NoImage, psnr |-> PSNR(NoImage, NoImage), angle |-> 0,
     degraded_gray |-> NoImage, output_name |-> 0,
     tesseract_text |-> NoneSeq, tesseract_relative_error |-> None,
     word_boxes |-> <<>>,
     rotation |-> rotate_args(NoImage, 0, <<0, 0>>),
     projection |-> no_crop_args(<<0, 0>>, 0)]

\* History of a call: how often annotations.json was opened for writing,
\* the image files written, the output directory and index file as they were
\* when the call began, the exception raised, and the outcome of the call
\* before.
NoHist ==
    [opens |-> 0, written |-> <<>>, start_dirs |-> FALSE, start_ann |-> <<>>,
     start_exists |-> FALSE, err |-> "none",
     prev |-> [done |-> FALSE, err |-> "none", images |-> <<>>, ann |-> <<>>,
               rand |-> <<0, 0>>]]

PureIdle == fin = <<>> /\ fout = <<>> /\ fpc = "idle"

Init ==
    /\ disk_in \in DiskStates
    /\ args \in ArgSets
    /\ pc = "start"
    /\ run = 1
    /\ pyRand \in IF args.seed.some THEN {0} ELSE 0..(RandMod - 1)
    /\ npRand \in IF args.seed.some THEN {0} ELSE 0..(RandMod - 1)
    /\ image_filenames = <<>>
    /\ idx = 0
    /\ cur = NoLocals
    /\ output_index = <<>>
    /\ \E old \in BOOLEAN :
          /\ out = [dirs |-> old, images |-> <<>>,
                    annotations |-> [exists |-> old,
                                     data |-> IF old THEN OldIndex ELSE <<>>]]
          /\ hist = [NoHist EXCEPT !.start_dirs = old,
                                   !.start_exists = old,
                                   !.start_ann = IF old THEN OldIndex ELSE <<>>]
    /\ PureIdle

Raise(e) ==
    /\ pc' = "raised"
    /\ hist' = [hist EXCEPT !.err = e]

\* Lines 196-213: the checks made before anything is created.
upfront_error(d, c) ==
    IF ~d.images_dir THEN "Invalid images directory path specified."
    ELSE IF ~d.annotations THEN "Invalid annotations path specified."
    ELSE validate_degradation_config(c)

Validate ==
    /\ pc = "start"
    /\ IF upfront_error(disk_in, args.cfg) # "none"
       THEN Raise(upfront_error(disk_in, args.cfg))
       ELSE pc' = "makedirs" /\ UNCHANGED hist
    /\ UNCHANGED <<disk_in, args, run, pyRand, npRand, image_filenames, idx, cur,
                   output_index, out, pureVars>>

\* Lines 215-217
MakeDirs ==
    /\ pc = "makedirs"
    /\ out' = [out EXCEPT !.dirs = TRUE]
    /\ pc' = "seed"
    /\ UNCHANGED <<disk_in, args, run, pyRand, npRand, image_filenames, idx, cur,
                   output_index, hist, pureVars>>

\* SeedAndList without line 221: numpy's generator is left unseeded.
SeedAndList_python_only ==
    /\ pc = "seed"
    /\ pyRand' = IF args.seed.some THEN seeded(args.seed.v) ELSE pyRand
    /\ image_filenames' = truncate([k \in 1..disk_in.n |-> k], args.num_images)
    /\ output_index' = <<>>
    /\ idx' = 0
    /\ pc' = "loop"
    /\ UNCHANGED <<disk_in, args, run, npRand, cur, out, hist, pureVars>>

\* Lines 219-232
SeedAndList ==
    /\ pc = "seed"
    /\ pyRand' = IF args.seed.some THEN seeded(args.seed.v) ELSE pyRand
    /\ npRand' = IF args.seed.some THEN seeded(args.seed.v) ELSE npRand
    /\ image_filenames' = truncate([k \in 1..disk_in.n |-> k], args.num_images)
    /\ output_index' = <<>>
    /\ idx' = 0
    /\ pc' = "loop"
    /\ UNCHANGED <<disk_in, args, run, cur, out, hist, pureVars>>

InLoop == pc = "loop" /\ idx < Len(image_filenames)

\* SkipMissing without the isfile guard of line 236: the missing file ends
\* the run.
SkipMissing_raises ==
    /\ InLoop
    /\ disk_in.status[image_filenames[idx + 1]] = "missing"
    /\ Raise("FileNotFoundError")
    /\ UNCHANGED <<disk_in, args, run, pyRand, npRand, image_filenames, idx, cur,
                   output_index, out, pureVars>>

\* Lines 234-237: the image file is not on disk.
SkipMissing ==
    /\ InLoop
    /\ disk_in.status[image_filenames[idx + 1]] = "missing"
    /\ idx' = idx + 1
    /\ UNCHANGED <<disk_in, args, pc, run, pyRand, npRand, image_filenames, cur,
                   output_index, out, hist, pureVars>>

\* Lines 239-241: cv.imread returns None.
SkipUnreadable ==
    /\ InLoop
    /\ disk_in.status[image_filenames[idx + 1]] = "undecodable"
    /\ idx' = idx + 1
    /\ UNCHANGED <<disk_in, args, pc, run, pyRand, npRand, image_filenames, cur,
                   output_index, out, hist, pureVars>>

\* Lines 239-251: the image is decoded and the target size chosen.
LoadImage ==
    /\ InLoop
    /\ disk_in.status[image_filenames[idx + 1]] = "ok"
    /\ LET image_name == image_filenames[idx + 1]
           source_size == SourceSize(image_name)
       IN  cur' = [NoLocals EXCEPT
                      !.stage = "loaded",
                      !.image_name = image_name,
                      !.source_image = [NoImage EXCEPT !.src = image_name,
                                                       !.w = source_size[1],
                                                       !.h = source_size[2]],
                      !.target_size = target_size_of(args.cfg, source_size, pyRand)]
    /\ pyRand' = IF args.cfg.use_resize THEN Advance(pyRand, 2) ELSE pyRand
    /\ pc' = "build"
    /\ UNCHANGED <<disk_in, args, run, npRand, image_filenames, idx,
                   output_index, out, hist, pureVars>>

\* Lines 253-294
BuildPipeline ==
    /\ pc = "build"
    /\ LET b == build_ops(Families, args.cfg, pyRand, cur.target_size)
       IN  /\ pyRand' = b.rand
           /\ IF b.raised # "none"
              THEN Raise(b.raised) /\ UNCHANGED cur
              ELSE /\ cur' = [cur EXCEPT !.stage = "built",
                                         !.degradation_ops = b.ops]
                   /\ pc' = "apply"
                   /\ UNCHANGED hist
    /\ UNCHANGED <<disk_in, args, run, npRand, image_filenames, idx,
                   output_index, out, pureVars>>

\* Line 296
ApplyOperations ==
    /\ pc = "apply"
    /\ LET r == apply_operations(cur.source_image, cur.degradation_ops, npRand)
       IN  /\ npRand' = r.np
           /\ IF r.raised # "none"
              THEN Raise(r.raised) /\ UNCHANGED cur
              ELSE /\ cur' = [cur EXCEPT !.stage = "degraded",
                                         !.degraded_image = r.image]
                   /\ pc' = "psnr"
                   /\ UNCHANGED hist
    /\ UNCHANGED <<disk_in, args, run, pyRand, image_filenames, idx,
                   output_index, out, pureVars>>

\* Lines 297-302
ComputePSNR ==
    /\ pc = "psnr"
    /\ cur' = [cur EXCEPT
                  !.stage = "fidelity",
                  !.psnr = PSNR(cur.source_image,
                                resize(cur.degraded_image,
                                       Op("resize", cur.source_image.w,
                                          cur.source_image.h, 2)))]
    /\ pc' = "rotate"
    /\ UNCHANGED <<disk_in, args, run, pyRand, npRand, image_filenames, idx,
                   output_index, out, hist, pureVars>>

\* Lines 304-310
Rotate ==
    /\ pc = "rotate"
    /\ LET angle == IF args.cfg.use_rotate
                    THEN uniform(-args.cfg.max_rotate, args.cfg.max_rotate, pyRand)
                    ELSE 0
       IN  cur' = [cur EXCEPT
                      !.stage = "rotated",
                      !.angle = angle,
                      !.rotation = rotate_args(cur.degraded_image, angle,
                                               cur.target_size),
                      !.degraded_gray =
                          cvtColor(rotated(args.cfg, cur.degraded_image, angle,
                                           cur.target_size))]
    /\ pyRand' = IF args.cfg.use_rotate THEN NextRand(pyRand) ELSE pyRand
    /\ pc' = "save"
    /\ UNCHANGED <<disk_in, args, run, npRand, image_filenames, idx,
                   output_index, out, hist, pureVars>>

\* Lines 312-313: the output name is built from enumerate()'s idx.
SaveImage ==
    /\ pc = "save"
    /\ cur' = [cur EXCEPT !.stage = "saved", !.output_name = idx]
    /\ out' = [out EXCEPT !.images = Put(@, idx, cur.degraded_gray)]
    /\ hist' = [hist EXCEPT !.written = Put(@, idx, cur.degraded_gray)]
    /\ pc' = "ocr"
    /\ UNCHANGED <<disk_in, args, run, pyRand, npRand, image_filenames, idx,
                   output_index, pureVars>>

\* Lines 315-320
RunTesseract ==
    /\ pc = "ocr"
    /\ IF ~args.cfg.run_tesseract
       THEN /\ cur' = [cur EXCEPT !.stage = "ocr"]
            /\ pc' = "project"
            /\ UNCHANGED hist
       ELSE LET real_text == extract_image_text(SourceWords(cur.image_name))
                tesseract_text == image_to_string(cur.degraded_gray)
                rel == calculate_relative_edit_distance(real_text, tesseract_text)
            IN  IF rel.raised # "none"
                THEN Raise(rel.raised) /\ UNCHANGED cur
                ELSE /\ cur' = [cur EXCEPT
                                   !.stage = "ocr",
                                   !.tesseract_text = Some(tesseract_text),
                                   !.tesseract_relative_error =
                                       Some(PyInt(rel.num, rel.den))]
                     /\ pc' = "project"
                     /\ UNCHANGED hist
    /\ UNCHANGED <<disk_in, args, run, pyRand, npRand, image_filenames, idx,
                   output_index, out, pureVars>>

\* Lines 322-328
ProjectWordBoxes ==
    /\ pc = "project"
    /\ LET a == project_args(cur)
       IN  cur' = [cur EXCEPT
                      !.stage = "projected",
                      !.projection = no_crop_args(a.target_size, a.angle),
                      !.word_boxes =
                          project_word_boxes(SourceWords(a.image_name),
                                             a.source_size, a.target_size,
                                             a.angle)]
    /\ pc' = "record"
    /\ UNCHANGED <<disk_in, args, run, pyRand, npRand, image_filenames, idx,
                   output_index, out, hist, pureVars>>

\* Lines 330-338: the record of this image.
output_record(c) ==
    [source_image |-> c.image_name,
     width |-> c.degraded_gray.w,
     height |-> c.degraded_gray.h,
     psnr |-> c.psnr,
     tesseract_output |->
         IF c.tesseract_text.some /\ c.tesseract_text.v # <<>>
         THEN Some(split_lines(c.tesseract_text.v, <<>>))
         ELSE NoneSeq,
     tesseract_relative_error |-> c.tesseract_relative_error,
     words |-> c.word_boxes]

\* RecordEntry persisting the index after every image.
RecordEntry_writes_index ==
    /\ pc = "record"
    /\ output_index' = Put(output_index, cur.output_name, output_record(cur))
    /\ out' = [out EXCEPT !.annotations = [exists |-> TRUE, data |-> output_index']]
    /\ hist' = [hist EXCEPT !.opens = @ + 1]
    /\ cur' = [cur EXCEPT !.stage = "recorded"]
    /\ idx' = idx + 1
    /\ pc' = "loop"
    /\ UNCHANGED <<disk_in, args, run, pyRand, npRand, image_filenames, pureVars>>

RecordEntry ==
    /\ pc = "record"
    /\ output_index' = Put(output_index, cur.output_name, output_record(cur))
    /\ cur' = [cur EXCEPT !.stage = "recorded"]
    /\ idx' = idx + 1
    /\ pc' = "loop"
    /\ UNCHANGED <<disk_in, args, run, pyRand, npRand, image_filenames,
                   out, hist, pureVars>>

\* Lines 340-341: the index is written after the loop.
WriteIndex ==
    /\ pc = "loop"
    /\ idx >= Len(image_filenames)
    /\ out' = [out EXCEPT !.annotations = [exists |-> TRUE, data |-> output_index]]
    /\ hist' = [hist EXCEPT !.opens = @ + 1]
    /\ pc' = "done"
    /\ UNCHANGED <<disk_in, args, run, pyRand, npRand, image_filenames, idx, cur,
                   output_index, pureVars>>

\* The caller makes the same call a second time in the same process, on the
\* same inputs: the generators and the output directory are as the first
\* call left them.
CallAgain ==
    /\ pc \in {"done", "raised"}
    /\ run = 1
    /\ run' = 2
    /\ pc' = "start"
    /\ image_filenames' = <<>>
    /\ idx' = 0
    /\ cur' = NoLocals
    /\ output_index' = <<>>
    /\ hist' = [NoHist EXCEPT
                   !.start_dirs = out.dirs,
                   !.start_exists = out.annotations.exists,
                   !.start_ann = out.annotations.data,
                   !.prev = [done |-> pc = "done", err |-> hist.err,
                             images |-> hist.written,
                             ann |-> out.annotations.data,
                             rand |-> <<pyRand, npRand>>]]
    /\ UNCHANGED <<disk_in, args, pyRand, npRand, out, pureVars>>

Next ==
    \/ Validate
    \/ MakeDirs
    \/ SeedAndList
    \/ SkipMissing
    \/ SkipUnreadable
    \/ LoadImage
    \/ BuildPipeline
    \/ ApplyOperations
    \/ ComputePSNR
    \/ Rotate
    \/ SaveImage
    \/ RunTesseract
    \/ ProjectWordBoxes
    \/ RecordEntry
    \/ WriteIndex
    \/ CallAgain

Spec == Init /\ [][Next]_vars

(***************************************************************************)
(* The pure functions on their own: each is applied once to inputs drawn   *)
(* from bounded sets.                                                      *)
(***************************************************************************)
OrchIdle ==
    /\ disk_in = <<>> /\ args = <<>> /\ pc = "idle" /\ run = 0
    /\ pyRand = 0 /\ npRand = 0 /\ image_filenames = <<>> /\ idx = 0
    /\ cur = NoLocals /\ output_index = <<>> /\ out = <<>> /\ hist = NoHist

Strings(n) == UNION { [1..k -> Letters] : k \in 0..n }

InitMetrics ==
    /\ OrchIdle
    /\ fin \in { [ground_truth_text |-> a, predicted_text |-> b] :
                    a \in Strings(MaxLen), b \in Strings(MaxLen) }
    /\ fout = <<>>
    /\ fpc = "ready"

CallEditDistance ==
    /\ fpc = "ready"
    /\ fout' = [value |-> calculate_edit_distance(fin.ground_truth_text,
                                                  fin.predicted_text)]
    /\ fpc' = "edit_distance"
    /\ UNCHANGED <<fin, orchVars>>

CallRelativeEditDistance ==
    /\ fpc = "ready"
    /\ fout' = calculate_relative_edit_distance(fin.ground_truth_text,
                                                fin.predicted_text)
    /\ fpc' = "relative_edit_distance"
    /\ UNCHANGED <<fin, orchVars>>

NextMetrics == CallEditDistance \/ CallRelativeEditDistance

SpecMetrics == InitMetrics /\ [][NextMetrics]_vars

\* Word annotations in each supported encoding, and one with no box.
SampleWords ==
    { WordData(<<"a">>, << <<0, 0>>, <<2, 0>>, <<2, 1>>, <<0, 1>> >>, <<>>, <<>>, <<>>),
      WordData(<<"a">>, <<>>, << <<1, 0>>, <<3, 1>>, <<2, 3>>, <<0, 2>> >>, <<>>, <<>>),
      WordData(<<"a">>, <<>>, <<>>, <<0, 1, 3, 2>>, <<>>),
      WordData(<<"a">>, <<>>, <<>>, <<3, 2, 1, 0>>, <<>>),
      WordData(<<"a">>, <<>>, <<>>, <<>>, <<1, 1, 2, 3>>),
      WordData(<<"a">>, <<>>, <<>>, <<>>, <<>>) }

Sizes == (1..MaxSide) \X (1..MaxSide)

\* Either a point of an image, for the identity projection, or a word
\* annotation with a source size, a target size and an angle.
GeomInputs ==
    { [kind |-> "point", source_size |-> sz, target_size |-> sz, angle |-> 0,
       word |-> WordData(<<>>, <<>>, <<>>, <<>>, <<>>), point |-> <<x, y>>] :
        sz \in Sizes, x \in 0..MaxSide, y \in 0..MaxSide }
    \cup
    { [kind |-> "word", source_size |-> sz, target_size |-> tz, angle |-> angle,
       word |-> word, point |-> <<0, 0>>] :
        sz \in Sizes, tz \in Sizes, angle \in Angles, word \in SampleWords }

InitGeom ==
    /\ OrchIdle
    /\ fin \in { g \in GeomInputs : /\ g.point[1] <= g.source_size[1]
                                    /\ g.point[2] <= g.source_size[2] }
    /\ fout = <<>>
    /\ fpc = "ready"

\* scale_point2d to the same size, then rotate_point2d_no_crop by 0 degrees
\* about the image centre.
CallIdentityProjection ==
    /\ fpc = "ready"
    /\ fin.kind = "point"
    /\ fout' = [point |->
                   rotate_point2d_no_crop(
                       scale_point2d(fin.point, fin.source_size, fin.source_size),
                       0,
                       <<fin.source_size[1] \div 2, fin.source_size[2] \div 2>>,
                       fin.source_size)]
    /\ fpc' = "identity"
    /\ UNCHANGED <<fin, orchVars>>

CallProjectWordBoxes ==
    /\ fpc = "ready"
    /\ fin.kind = "word"
    /\ fout' = [word_boxes |-> project_word_boxes(<<fin.word>>, fin.source_size,
                                                  fin.target_size, fin.angle)]
    /\ fpc' = "projected"
    /\ UNCHANGED <<fin, orchVars>>

NextGeom == CallIdentityProjection \/ CallProjectWordBoxes

SpecGeom == InitGeom /\ [][NextGeom]_vars

(***************************************************************************)
(* The key listing of lines 226-229 on its own.                            *)
(***************************************************************************)
\* sorted(): insertion of each key into the sorted rest.
RECURSIVE sorted(_)
sorted(keys) ==
    IF keys = <<>> THEN <<>>
    ELSE LET rest == sorted(Tail(keys))
             below == SelectSeq(rest, LAMBDA k : k < Head(keys))
             above == SelectSeq(rest, LAMBDA k : k >= Head(keys))
         IN  below \o <<Head(keys)>> \o above

\* The keys of an annotation document, in the order the document lists them.
KeyLists ==
    UNION { { q \in [1..n -> 1..(MaxKeys + 1)] :
                \A i, j \in 1..n : i # j => q[i] # q[j] } :
            n \in 0..(MaxKeys + 1) }

InitKeys ==
    /\ OrchIdle
    /\ fin \in { [keys |-> q, num_images |-> ni] :
                    q \in KeyLists,
                    ni \in {None} \cup { Some(n) : n \in (-(MaxKeys + 2))..(MaxKeys + 2) } }
    /\ fout = <<>>
    /\ fpc = "ready"

\* Lines 227-229
CallListKeys ==
    /\ fpc = "ready"
    /\ fout' = [image_filenames |-> truncate(sorted(fin.keys), fin.num_images)]
    /\ fpc' = "listed"
    /\ UNCHANGED <<fin, orchVars>>

NextKeys == CallListKeys

SpecKeys == InitKeys /\ [][NextKeys]_vars

(***************************************************************************)
(* _get_word_corners on its own: one rectangle in each encoding.           *)
(***************************************************************************)
BoxEncodings == {"corners", "quad", "bbox", "scalars"}

\* The word annotation that carries the rectangle r = <<x1, y1, x2, y2>> in
\* the given encoding and nothing else.
EncodedWord(r, encoding) ==
    LET four == << <<r[1], r[2]>>, <<r[3], r[2]>>, <<r[3], r[4]>>, <<r[1], r[4]>> >>
    IN  CASE encoding = "corners" -> WordData(<<"a">>, four, <<>>, <<>>, <<>>)
          [] encoding = "quad" -> WordData(<<"a">>, <<>>, four, <<>>, <<>>)
          [] encoding = "bbox" -> WordData(<<"a">>, <<>>, <<>>, r, <<>>)
          [] encoding = "scalars" -> WordData(<<"a">>, <<>>, <<>>, <<>>, r)

InitCorners ==
    /\ OrchIdle
    /\ fin \in { [rect |-> r, encoding |-> en, word_data |-> EncodedWord(r, en)] :
                    r \in (0..MaxSide) \X (0..MaxSide) \X (0..MaxSide) \X (0..MaxSide),
                    en \in BoxEncodings }
    /\ fout = <<>>
    /\ fpc = "ready"

CallGetWordCorners ==
    /\ fpc = "ready"
    /\ fout' = [corners |-> get_word_corners(fin.word_data)]
    /\ fpc' = "corners"
    /\ UNCHANGED <<fin, orchVars>>

NextCorners == CallGetWordCorners

SpecCorners == InitCorners /\ [][NextCorners]_vars

(***************************************************************************)
(* noisify on its own, pixel by pixel.                                     *)
(***************************************************************************)
\* Pixel values and noise terms (in tenths) around both ends of 0..255.
PixelValues == {0, 1, 127, 254, 255}

NoiseTenths == {-2570, -2565, -15, -10, -5, 0, 5, 7, 10, 15, 2560, 2565}

\* Ratios in thousandths: 0, 1/4, 1/2, 1 and two values outside [0, 1].
Ratios == {-250, 0, 250, 500, 1000, 1500}

\* The gray level of the image given to salt-and-pepper noise.
Gray == 7

NoiseInputs ==
    { [kind |-> "gaussian", v |-> v, n10 |-> n, height |-> 1, width |-> 1,
       amount |-> 0, salt_vs_pepper |-> 0] :
        v \in PixelValues, n \in NoiseTenths }
    \cup
    { [kind |-> "salt_pepper", v |-> Gray, n10 |-> 0, height |-> h, width |-> w,
       amount |-> a, salt_vs_pepper |-> sp] :
        h \in 1..MaxNoiseSide, w \in 1..MaxNoiseSide, a \in Ratios, sp \in Ratios }

InitNoise ==
    /\ OrchIdle
    /\ fin \in NoiseInputs
    /\ fout = <<>>
    /\ fpc = "ready"

\* noisify(image, GAUSSIAN, ...) on one pixel, on either kind of build.
CallGaussianNoise ==
    /\ fpc = "ready"
    /\ fin.kind = "gaussian"
    /\ \E cast \in {"wraps", "saturates"} :
          fout' = [value |-> gaussian_pixel(fin.v, fin.n10, cast)]
    /\ fpc' = "gaussian"
    /\ UNCHANGED <<fin, orchVars>>

\* The sets of positions n draws with repetition can hit.
HitSets(positions, n) ==
    { hit \in SUBSET positions :
        IF n = 0 THEN hit = {} ELSE hit # {} /\ Cardinality(hit) <= n }

\* noisify(image, SALT_AND_PEPPER, amount, salt_vs_pepper) on an image of
\* one gray level, with any numpy version and any outcome of the draws.
CallSaltPepper ==
    /\ fpc = "ready"
    /\ fin.kind = "salt_pepper"
    /\ LET n == salt_pepper_counts(fin.height, fin.width, fin.amount,
                                   fin.salt_vs_pepper)
           pixels == [pos \in (0..(fin.height - 1)) \X (0..(fin.width - 1)) |-> fin.v]
           positions == salt_pepper_range(fin.height, fin.width)
       IN  \E strict \in BOOLEAN :
              LET err == salt_pepper_error(fin.height, fin.width, fin.amount,
                                           fin.salt_vs_pepper, strict)
              IN  IF err # "none"
                  THEN fout' = [raised |-> err, num_salt_pixels |-> 0,
                                num_pepper_pixels |-> 0, pixels |-> pixels]
                  ELSE \E salt \in HitSets(positions, n.salt),
                          pepper \in HitSets(positions, n.pepper) :
                          fout' = [raised |-> "none",
                                   num_salt_pixels |-> n.salt,
                                   num_pepper_pixels |-> n.pepper,
                                   pixels |-> salt_pepper_pixels(pixels, salt, pepper)]
    /\ fpc' = "salt_pepper"
    /\ UNCHANGED <<fin, orchVars>>

NextNoise == CallGaussianNoise \/ CallSaltPepper

SpecNoise == InitNoise /\ [][NextNoise]_vars

(***************************************************************************)
(* _extract_image_text on its own.                                         *)
(***************************************************************************)
\* Word strings: empty, plain, and with a newline.
WordTexts == { <<>>, <<"a">>, <<"a", "b">>, <<"b", "NL">>, <<"NL">> }

\* The word lists of an image: up to MaxWords words, each with its string.
WordLists ==
    UNION { { [i \in 1..n |-> WordData(ws[i], <<>>, <<>>, <<>>, <<>>)] :
                ws \in [1..n -> WordTexts] } :
            n \in 0..MaxWords }

InitText ==
    /\ OrchIdle
    /\ fin \in { [words |-> ws] : ws \in WordLists }
    /\ fout = <<>>
    /\ fpc = "ready"

\* Lines 318-320: the ground truth is built and handed to the metric.
CallExtractImageText ==
    /\ fpc = "ready"
    /\ LET real_text == extract_image_text(fin.words)
       IN  fout' = [text |-> real_text,
                    metric |-> calculate_relative_edit_distance(real_text, <<>>)]
    /\ fpc' = "text"
    /\ UNCHANGED <<fin, orchVars>>

NextText == CallExtractImageText

SpecText == InitText /\ [][NextText]_vars

(***************************************************************************)
(* generate_clear_text_images.py: generate_clear_text_images.  Its inputs  *)
(* are held in fin, its local variables and what it has written in fout,   *)
(* its position in fpc.  A word is the <<width, height>> _text_size        *)
(* measures for it; word_annotations, which the loop only appends to, is   *)
(* kept by its length, counted up to MaxPlaced.                            *)
(***************************************************************************)
WordBoxes == { <<1, 1>>, <<2, 1>>, <<1, 3>> }

\* The words of the text file: text.split().
ClearTexts == UNION { [1..n -> WordBoxes] : n \in 0..2 }

\* line_spacing in thousandths.
ClearInputs ==
    { [text_file |-> tf, words |-> ws, num_images |-> ni, image_size |-> sz,
       font_size |-> fs, line_spacing |-> ls, border_margin |-> bm,
       space_width |-> 1] :
        tf \in BOOLEAN, ws \in ClearTexts, ni \in 0..2,
        sz \in { <<4, 4>>, <<3, 2>>, <<0, 3>> },
        fs \in {1, 2}, ls \in {0, 400, 1500}, bm \in {0, 1} }

InitClear ==
    /\ OrchIdle
    /\ fin \in ClearInputs
    /\ fout = [i |-> 0, cursor_x |-> 0, cursor_y |-> 0, word_index |-> 0,
               word_annotations |-> 0, images |-> {}, annotations |-> {},
               index_writes |-> 0, raised |-> "none"]
    /\ fpc = "ready"

\* Lines 56-76: the checks, and the set-up before the first image.
ClearValidate ==
    /\ fpc = "ready"
    /\ LET err == IF ~fin.text_file THEN "Invalid text file path specified."
                  ELSE IF fin.num_images <= 0
                  THEN "num_images must be a positive integer."
                  ELSE IF fin.image_size[1] <= 0 \/ fin.image_size[2] <= 0
                  THEN "image_size must contain positive values."
                  ELSE IF fin.words = <<>>
                  THEN "Text file is empty or contains no words."
                  ELSE "none"
       IN  IF err # "none"
           THEN fout' = [fout EXCEPT !.raised = err] /\ fpc' = "raised"
           ELSE fout' = fout /\ fpc' = "for"
    /\ UNCHANGED <<fin, orchVars>>

\* Lines 78-85: the next image is begun.
ClearStartImage ==
    /\ fpc = "for"
    /\ fout.i < fin.num_images
    /\ fout' = [fout EXCEPT !.cursor_x = fin.border_margin,
                            !.cursor_y = fin.border_margin,
                            !.word_annotations = 0]
    /\ fpc' = "while"
    /\ UNCHANGED <<fin, orchVars>>

\* int(font_size * line_spacing)
line_step(font_size, line_spacing) == PyInt(font_size * line_spacing, 1000)

\* Lines 86-111: one pass of the word-placement loop: the word index wraps
\* around, the cursor moves to the next line when the word does not fit the
\* width, the loop ends when the word does not fit the height, and otherwise
\* the word is drawn and annotated.
ClearPlaceWord ==
    /\ fpc = "while"
    /\ LET width == fin.image_size[1]
           height == fin.image_size[2]
           word_index == IF fout.word_index >= Len(fin.words) THEN 0
                         ELSE fout.word_index
           word_width == fin.words[word_index + 1][1]
           word_height == fin.words[word_index + 1][2]
           wrap == fout.cursor_x + word_width + fin.border_margin > width
           cursor_x == IF wrap THEN fin.border_margin ELSE fout.cursor_x
           cursor_y == IF wrap
                       THEN fout.cursor_y + line_step(fin.font_size, fin.line_spacing)
                       ELSE fout.cursor_y
       IN  IF cursor_y + word_height + fin.border_margin > height
           THEN /\ fout' = [fout EXCEPT !.word_index = word_index,
                                        !.cursor_x = cursor_x,
                                        !.cursor_y = cursor_y]
                /\ fpc' = "save"
           ELSE /\ fout' = [fout EXCEPT
                               !.word_index = word_index + 1,
                               !.cursor_x = cursor_x + word_width + fin.space_width,
                               !.cursor_y = cursor_y,
                               !.word_annotations = Min2(@ + 1, MaxPlaced)]
                /\ fpc' = "while"
    /\ UNCHANGED <<fin, orchVars>>

\* Lines 113-119: the image is saved and its entry added.
ClearSaveImage ==
    /\ fpc = "save"
    /\ fout' = [fout EXCEPT !.images = @ \cup {fout.i},
                            !.annotations = @ \cup {fout.i},
                            !.i = @ + 1]
    /\ fpc' = "for"
    /\ UNCHANGED <<fin, orchVars>>

\* Lines 121-122: annotations.json is written after the last image.
ClearWriteAnnotations ==
    /\ fpc = "for"
    /\ fout.i >= fin.num_images
    /\ fout' = [fout EXCEPT !.index_writes = @ + 1]
    /\ fpc' = "done"
    /\ UNCHANGED <<fin, orchVars>>

NextClear ==
    \/ ClearValidate
    \/ ClearStartImage
    \/ ClearPlaceWord
    \/ ClearSaveImage
    \/ ClearWriteAnnotations

\* The interpreter keeps executing the call while it has a step to take.
SpecClear == InitClear /\ [][NextClear]_vars /\ WF_vars(NextClear)

(***************************************************************************)
(* Properties                                                              *)
(***************************************************************************)
\* A configuration range that breaks its invariant: a min above its matching
\* max (the four filter-radius ranges included), a negative magnitude or
\* rate, a resize ratio that is not strictly positive.
RangeViolation(c) ==
    \/ c.resize_min > c.resize_max \/ c.resize_min <= 0 \/ c.resize_max <= 0
    \/ c.gaussian_mean_min > c.gaussian_mean_max
    \/ c.gaussian_std_min > c.gaussian_std_max
    \/ c.salt_vs_pepper_min > c.salt_vs_pepper_max
    \/ c.salt_pepper_amount_min > c.salt_pepper_amount_max
    \/ c.gaussian_blur_radius_min > c.gaussian_blur_radius_max
    \/ c.box_blur_radius_min > c.box_blur_radius_max
    \/ c.max_filter_radius_min > c.max_filter_radius_max
    \/ c.min_filter_radius_min > c.min_filter_radius_max
    \/ c.gaussian_std_min < 0 \/ c.gaussian_std_max < 0
    \/ c.speckle_std < 0 \/ c.speckle_std_alt < 0
    \/ c.salt_pepper_amount_min < 0 \/ c.salt_pepper_amount_max < 0
    \/ c.salt_vs_pepper_min < 0 \/ c.salt_vs_pepper_max < 0
    \/ c.max_rotate < 0

FatalCondition == ~disk_in.images_dir \/ ~disk_in.annotations \/ RangeViolation(args.cfg)

\* What the running call has created or written so far.
NothingCreated ==
    /\ out.dirs = hist.start_dirs
    /\ hist.written = <<>>
    /\ hist.opens = 0

\* C1: when images_dir is no directory, the annotations file is missing or a
\* configuration range breaks its invariant, the call creates no output
\* directory and writes no file.
C1_FatalBeforeOutput == FatalCondition => NothingCreated

\* The keys the loop has gone past: positions 1..idx of image_filenames.
Passed(i) == i <= idx

OutputsOf(k) == { n \in DOMAIN hist.written : hist.written[n].src = k }

EntriesOf(k) == { n \in DOMAIN output_index : output_index[n].source_image = k }

PastValidation == pc \notin {"start", "makedirs", "seed"} /\ hist.err \notin
    { "Invalid images directory path specified.",
      "Invalid annotations path specified.",
      "Invalid resize range specified.",
      "Invalid gaussian mean range specified.",
      "Invalid gaussian stddev range specified.",
      "Invalid speckle stddev specified.",
      "Invalid salt-vs-pepper range specified.",
      "Invalid salt-pepper amount range specified." }

\* C2: a listed image that is missing or undecodable gets no output image
\* and no index entry and does not end the run (an exception is only ever
\* raised while a readable image is being processed); every readable image
\* the loop has gone past has exactly one output image and one index entry;
\* a run that finishes has gone past every listed key and has written the
\* index, entries of the readable images included, to annotations.json.
C2_SkipAndContinue ==
    PastValidation =>
        /\ \A i \in 1..Len(image_filenames) :
              LET k == image_filenames[i]
                  readable == disk_in.status[k] = "ok"
              IN  /\ ~readable => OutputsOf(k) = {} /\ EntriesOf(k) = {}
                  /\ readable /\ Passed(i) =>
                        /\ Cardinality(OutputsOf(k)) = 1
                        /\ Cardinality(EntriesOf(k)) = 1
                  /\ ~Passed(i) => Cardinality(OutputsOf(k)) <= 1
                                   /\ EntriesOf(k) = {}
        /\ pc = "raised" =>
              /\ idx < Len(image_filenames)
              /\ disk_in.status[image_filenames[idx + 1]] = "ok"
        /\ pc = "done" =>
              /\ idx = Len(image_filenames)
              /\ out.annotations.exists
              /\ out.annotations.data = output_index

\* A finished run that skipped a missing and an undecodable image and still
\* produced the image and the entry of a readable one listed after them.
C2_Witness ==
    /\ pc = "done"
    /\ \E i, j \in 1..Len(image_filenames) :
          /\ i < j
          /\ disk_in.status[image_filenames[i]] \in {"missing", "undecodable"}
          /\ disk_in.status[image_filenames[j]] = "ok"
          /\ Cardinality(OutputsOf(image_filenames[j])) = 1
    /\ out.annotations.exists
    /\ Cardinality(DOMAIN out.annotations.data) = 1

\* C3: a second call with the same non-null seed on the same corpus and
\* configuration ends as the first did: the same exception or none, the same
\* image files, the same index, the generators left in the same states.
C3_Determinism ==
    run = 2 /\ args.seed.some /\ pc \in {"done", "raised"} =>
        /\ (pc = "done") = hist.prev.done
        /\ hist.err = hist.prev.err
        /\ hist.written = hist.prev.images
        /\ pc = "done" => out.annotations.data = hist.prev.ann
        /\ <<pyRand, npRand>> = hist.prev.rand

\* A seeded second call that has finished after writing a noisy, resized and
\* rotated image.
C3_Witness ==
    /\ run = 2 /\ args.seed.some /\ pc = "done"
    /\ hist.written # <<>>
    /\ \E n \in DOMAIN hist.written :
          \E i, j \in 1..Len(hist.written[n].ops) :
             /\ hist.written[n].ops[i].op = "gaussian_noise"
             /\ hist.written[n].ops[j].op = "rotate"

\* C4: with rotation enabled, the projection hands rotate_point2d_no_crop the
\* angle and the centre the pixel rotation got and, as img_size, the size of
\* the buffer the pixel rotation got; both compute the same canvas and the
\* same translation, and the record stores that canvas as width and height.
C4_RotationGeometryAgrees ==
    args.cfg.use_rotate /\ cur.stage \in {"projected", "recorded"} =>
        /\ cur.projection.angle = cur.rotation.angle
        /\ cur.projection.center = cur.rotation.center
        /\ cur.projection.center = <<cur.target_size[1] \div 2,
                                     cur.target_size[2] \div 2>>
        /\ cur.projection.img_size = <<cur.degraded_image.w, cur.degraded_image.h>>
        /\ no_crop_canvas(cur.projection.angle, cur.projection.img_size)
              = rotate_canvas(cur.degraded_image, cur.rotation.angle)
        /\ no_crop_offset2(cur.projection.angle, cur.projection.center,
                           cur.projection.img_size)
              = rotate_offset2(cur.degraded_image, cur.rotation.angle,
                               cur.rotation.center)
        /\ cur.stage = "recorded" =>
              /\ output_index[cur.output_name].width
                    = no_crop_canvas(cur.projection.angle,
                                     cur.projection.img_size)[1]
              /\ output_index[cur.output_name].height
                    = no_crop_canvas(cur.projection.angle,
                                     cur.projection.img_size)[2]

\* A recorded image that was resized to another size and rotated by a
\* non-zero angle into a canvas larger than the resized buffer.
C4_Witness ==
    /\ args.cfg.use_rotate /\ cur.stage = "recorded"
    /\ cur.angle # 0
    /\ cur.target_size # <<cur.source_image.w, cur.source_image.h>>
    /\ output_index[cur.output_name].width > cur.target_size[1]

\* C5: scale_point2d to the same size followed by rotate_point2d_no_crop by
\* 0 degrees about (w // 2, h // 2) returns the point it was given.
C5_IdentityProjection == fpc = "identity" => fout.point = fin.point

AllDisabled(c) ==
    /\ ~c.use_gaussian_noise /\ ~c.use_speckle /\ ~c.use_salt_pepper
    /\ ~c.use_gaussian_blur /\ ~c.use_box_blur /\ ~c.use_max_filter
    /\ ~c.use_min_filter /\ ~c.use_resize /\ ~c.use_rotate

\* C6: with every family disabled the operation list is empty, the saved
\* image is the grayscale conversion of the source, the recorded size is the
\* source's and every projected corner equals its source corner.
C6_AllDisabledIsIdentity ==
    AllDisabled(args.cfg) /\ cur.stage = "recorded" =>
        /\ cur.degradation_ops = <<>>
        /\ out.images[cur.output_name] = cvtColor(cur.source_image)
        /\ output_index[cur.output_name].width = cur.source_image.w
        /\ output_index[cur.output_name].height = cur.source_image.h
        /\ \A i \in 1..Len(cur.word_boxes) :
              cur.word_boxes[i].corners = cur.word_boxes[i].src

\* C7: the bbox of every emitted word is the axis-aligned min/max of its
\* projected corners and so contains each of them.
C7_BboxContainsCorners ==
    fpc = "projected" =>
        \A i \in 1..Len(fout.word_boxes) :
           LET b == fout.word_boxes[i]
           IN  /\ \A j \in 1..Len(b.corners) :
                     /\ b.bbox[1] <= b.corners[j][1] /\ b.corners[j][1] <= b.bbox[3]
                     /\ b.bbox[2] <= b.corners[j][2] /\ b.corners[j][2] <= b.bbox[4]
               /\ \E j \in 1..Len(b.corners) : b.corners[j][1] = b.bbox[1]
               /\ \E j \in 1..Len(b.corners) : b.corners[j][2] = b.bbox[2]
               /\ \E j \in 1..Len(b.corners) : b.corners[j][1] = b.bbox[3]
               /\ \E j \in 1..Len(b.corners) : b.corners[j][2] = b.bbox[4]

\* A word given as a quadrilateral, scaled to another size and rotated, whose
\* emitted box is not the one spanned by its first and third corner.
C7_Witness ==
    /\ fpc = "projected"
    /\ fin.word.quad # <<>>
    /\ fin.angle # 0
    /\ fin.target_size # fin.source_size
    /\ Len(fout.word_boxes) = 1
    /\ fout.word_boxes[1].bbox # corners_bbox_diagonal(fout.word_boxes[1].corners)

\* The Levenshtein distance by its recursive definition: the cheapest of
\* deleting the first character of a, inserting the first character of b, and
\* matching or substituting the two.
RECURSIVE Levenshtein(_, _)
Levenshtein(a, b) ==
    IF a = <<>> THEN Len(b)
    ELSE IF b = <<>> THEN Len(a)
    ELSE Min3(Levenshtein(Tail(a), b) + 1,
              Levenshtein(a, Tail(b)) + 1,
              Levenshtein(Tail(a), Tail(b))
                  + (IF Head(a) = Head(b) THEN 0 ELSE 1))

\* C8: calculate_edit_distance is the Levenshtein distance; it is 0 on equal
\* strings and len(a) when b is empty.
C8_EditDistanceIsLevenshtein ==
    fpc = "edit_distance" =>
        /\ fout.value = Levenshtein(fin.ground_truth_text, fin.predicted_text)
        /\ fin.ground_truth_text = fin.predicted_text => fout.value = 0
        /\ fin.predicted_text = <<>> => fout.value = Len(fin.ground_truth_text)

\* Two different strings of full length whose distance takes a substitution.
C8_Witness ==
    /\ fpc = "edit_distance"
    /\ Len(fin.ground_truth_text) = MaxLen
    /\ Len(fin.predicted_text) = MaxLen
    /\ fout.value = 1

\* C9: on an empty ground-truth string calculate_relative_edit_distance
\* returns a value and raises nothing.
C9_EmptyGroundTruthDefined ==
    fpc = "relative_edit_distance" /\ fin.ground_truth_text = <<>> =>
        fout.raised = "none"

\* C10: annotations.json is opened for writing at most once per call, and
\* only by a call that has gone past its last image; until then, and in a
\* call that raised, the file is as it was when the call began.
C10_IndexWrittenOnceAtEnd ==
    /\ hist.opens <= 1
    /\ (hist.opens = 1) = (pc = "done")
    /\ pc = "done" => /\ idx >= Len(image_filenames)
                      /\ out.annotations = [exists |-> TRUE, data |-> output_index]
    /\ pc # "done" => out.annotations = [exists |-> hist.start_exists,
                                         data |-> hist.start_ann]

\* A call that raised while processing its second image, after writing the
\* first one's file, with an index file of an earlier call on disk.
C10_Witness ==
    /\ pc = "raised"
    /\ hist.start_exists
    /\ hist.written # <<>>
    /\ idx >= 1
    /\ out.annotations.data = hist.start_ann

\* The order the claim fixes: one name per operation, speckle twice.
FixedOrder ==
    << "gaussian_noise", "speckle", "speckle", "salt_pepper", "gaussian_blur",
       "box_blur", "max_filter", "min_filter", "resize" >>

Enabled(c, f) ==
    CASE f = "gaussian_noise" -> c.use_gaussian_noise
      [] f = "speckle" -> c.use_speckle
      [] f = "salt_pepper" -> c.use_salt_pepper
      [] f = "gaussian_blur" -> c.use_gaussian_blur
      [] f = "box_blur" -> c.use_box_blur
      [] f = "max_filter" -> c.use_max_filter
      [] f = "min_filter" -> c.use_min_filter
      [] f = "resize" -> c.use_resize

ExpectedOps(c) ==
    LET On(f) == Enabled(c, f) IN SelectSeq(FixedOrder, On)

OpNames(ops) == [i \in 1..Len(ops) |-> ops[i].op]

\* The parameters an applied operation was recorded with.
OpParams(ops) ==
    [i \in 1..Len(ops) |-> <<ops[i].op, ops[i].p1, ops[i].p2, ops[i].p3>>]

\* C11: the operation list built for an image names exactly the enabled
\* families in the fixed order (speckle pass 1 before speckle pass 2); the
\* degraded buffer has had exactly these operations applied in this order;
\* rotation, when enabled, is the one operation applied after them, to the
\* degraded buffer, which has the target size; when disabled nothing follows.
C11_FixedOrder ==
    /\ cur.stage \in {"built", "degraded", "fidelity", "rotated", "saved", "ocr",
                      "projected", "recorded"} =>
          /\ OpNames(cur.degradation_ops) = ExpectedOps(args.cfg)
          /\ \A i \in 1..Len(cur.degradation_ops) :
                cur.degradation_ops[i].op = "speckle" =>
                   \/ /\ i < Len(cur.degradation_ops)
                      /\ cur.degradation_ops[i + 1].op = "speckle"
                      /\ cur.degradation_ops[i].p1 = args.cfg.speckle_mean
                      /\ cur.degradation_ops[i].p2 = args.cfg.speckle_std
                   \/ /\ i > 1
                      /\ cur.degradation_ops[i - 1].op = "speckle"
                      /\ cur.degradation_ops[i].p1 = args.cfg.speckle_mean_alt
                      /\ cur.degradation_ops[i].p2 = args.cfg.speckle_std_alt
    /\ cur.stage \in {"degraded", "fidelity", "rotated", "saved", "ocr",
                      "projected", "recorded"} =>
          /\ OpNames(cur.degraded_image.ops) = ExpectedOps(args.cfg)
          /\ OpParams(cur.degraded_image.ops) = OpParams(cur.degradation_ops)
          /\ <<cur.degraded_image.w, cur.degraded_image.h>> = cur.target_size
    /\ cur.stage \in {"rotated", "saved", "ocr", "projected", "recorded"} =>
          IF args.cfg.use_rotate
          THEN /\ Len(cur.degraded_gray.ops) = Len(cur.degraded_image.ops) + 1
               /\ SubSeq(cur.degraded_gray.ops, 1, Len(cur.degraded_image.ops))
                     = cur.degraded_image.ops
               /\ cur.degraded_gray.ops[Len(cur.degraded_gray.ops)].op = "rotate"
               /\ cur.rotation.img_size = cur.target_size
          ELSE cur.degraded_gray.ops = cur.degraded_image.ops

\* A recorded image that went through all nine operations and a rotation by
\* a non-zero angle.
C11_Witness ==
    /\ cur.stage = "recorded"
    /\ args.cfg.use_rotate /\ cur.angle # 0
    /\ Len(cur.degradation_ops) = 9
    /\ Len(cur.degraded_gray.ops) = 10

\* C12: the fidelity value is computed from the buffer as it is before the
\* rotation, and the image being processed has no file in the output
\* directory until its OCR evaluation and its annotation projection have
\* completed.
C12_PersistLast ==
    /\ cur.stage \in {"fidelity", "rotated", "saved", "ocr", "projected",
                      "recorded"} =>
          cur.psnr = PSNR(cur.source_image,
                          resize(cur.degraded_image,
                                 Op("resize", cur.source_image.w,
                                    cur.source_image.h, 2)))
    /\ cur.stage \in {"loaded", "built", "degraded", "fidelity", "rotated",
                      "saved", "ocr"} =>
          OutputsOf(cur.image_name) = {}

\* The i-th smallest of a list of distinct keys.
Smallest(keys, i) ==
    CHOOSE k \in {keys[j] : j \in 1..Len(keys)} :
        Cardinality({ j \in 1..Len(keys) : keys[j] < k }) = i - 1

\* C13: the listed keys are the smallest ones in ascending order: all of them
\* when num_images is not given, and the first min(N, number of keys) of
\* them (none when that is not positive) when num_images = N.
C13_FirstNSorted ==
    fpc = "listed" =>
        /\ Len(fout.image_filenames) =
              IF fin.num_images.some
              THEN Max2(0, Min2(fin.num_images.v, Len(fin.keys)))
              ELSE Len(fin.keys)
        /\ \A i \in 1..Len(fout.image_filenames) :
              fout.image_filenames[i] = Smallest(fin.keys, i)

\* C14: whichever encoding carries the rectangle (x1, y1, x2, y2), the
\* corners returned are (x1,y1), (x2,y1), (x2,y2), (x1,y2) in this order,
\* also when coordinates are 0.
C14_CanonicalCorners ==
    fpc = "corners" =>
        fout.corners = << <<fin.rect[1], fin.rect[2]>>, <<fin.rect[3], fin.rect[2]>>,
                          <<fin.rect[3], fin.rect[4]>>, <<fin.rect[1], fin.rect[4]>> >>

\* A rectangle at the origin given by its four scalar keys, normalised to
\* four corners.
C14_Witness ==
    /\ fpc = "corners"
    /\ fin.encoding = "scalars"
    /\ fin.rect[1] = 0 /\ fin.rect[2] = 0 /\ fin.rect[3] > 0 /\ fin.rect[4] > 0
    /\ Len(fout.corners) = 4
    /\ fout.corners[1] = <<0, 0>>

\* The positions of image_filenames whose image has been saved by this call.
SavedPositions ==
    { i \in 1..Len(image_filenames) :
        /\ disk_in.status[image_filenames[i]] = "ok"
        /\ \/ i <= idx
           \/ i = idx + 1 /\ pc \in {"ocr", "project", "record"} }

\* C15: the images a call has written carry the indices 0, 1, 2, ... with no
\* gap, one name per saved source image.
C15_SequentialNames ==
    /\ Cardinality(DOMAIN hist.written) = Cardinality(SavedPositions)
    /\ DOMAIN hist.written = 0..(Cardinality(SavedPositions) - 1)

\* C16: the output pixel of additive Gaussian noise is v + n with its
\* fraction dropped when that lies in 0..255, 255 when v + n is above the
\* range and 0 when it is below.
C16_GaussianClips ==
    fpc = "gaussian" =>
        LET t == PyInt(10 * fin.v + fin.n10, 10)
        IN  fout.value = IF t > 255 THEN 255 ELSE IF t < 0 THEN 0 ELSE t

\* The configured range and the step of a filter family.
RadiusRange(c, f) ==
    CASE f = "gaussian_blur" ->
            <<c.gaussian_blur_radius_min, c.gaussian_blur_radius_max, 2>>
      [] f = "box_blur" -> <<c.box_blur_radius_min, c.box_blur_radius_max, 1>>
      [] f = "max_filter" -> <<c.max_filter_radius_min, c.max_filter_radius_max, 2>>
      [] f = "min_filter" -> <<c.min_filter_radius_min, c.min_filter_radius_max, 2>>

FilterFamilies == {"gaussian_blur", "box_blur", "max_filter", "min_filter"}

\* The radius r lies in the family's range, on its step grid.
OnGrid(c, f, r) ==
    /\ RadiusRange(c, f)[1] <= r /\ r <= RadiusRange(c, f)[2]
    /\ (r - RadiusRange(c, f)[1]) % RadiusRange(c, f)[3] = 0

\* C17: every radius bound to a filter operation of a built pipeline is at
\* least 1 and lies in its family's range on the family's step grid; no
\* pipeline is built while an enabled family's range is inverted.
C17_RadiusInRange ==
    cur.stage \in {"built", "degraded", "fidelity", "rotated", "saved", "ocr",
                   "projected", "recorded"} =>
        /\ \A i \in 1..Len(cur.degradation_ops) :
              LET op == cur.degradation_ops[i]
              IN  op.op \in FilterFamilies =>
                     /\ op.p1 >= 1
                     /\ OnGrid(args.cfg, op.op, op.p1)
        /\ \A f \in FilterFamilies :
              Enabled(args.cfg, f) =>
                  RadiusRange(args.cfg, f)[1] <= RadiusRange(args.cfg, f)[2]

C19_WholeImageCovered ==
    /\ fpc = "salt_pepper"
    /\ 0 <= fin.amount /\ fin.amount <= 1000
    /\ 0 <= fin.salt_vs_pepper /\ fin.salt_vs_pepper <= 1000
    => /\ fout.raised = "none"
       /\ salt_pepper_range(fin.height, fin.width)
             = (0..(fin.height - 1)) \X (0..(fin.width - 1))

\* The words joined as the claim describes: a space after a word only when
\* another word follows and the word holds no newline.
RECURSIVE JoinedWords(_)
JoinedWords(words) ==
    IF words = <<>> THEN <<>>
    ELSE IF Len(words) = 1 THEN Head(words).word
    ELSE Head(words).word
         \o (IF \E i \in 1..Len(Head(words).word) : Head(words).word[i] = "NL"
             THEN <<>> ELSE <<" ">>)
         \o JoinedWords(Tail(words))

\* C20: the ground-truth text is the words joined by single spaces, with no
\* space after the last word and none after a word that holds a newline,
\* followed by one form feed; it is not empty, and the relative edit distance
\* computed from it raises nothing.
C20_JoinedText ==
    fpc = "text" =>
        /\ fout.text = JoinedWords(fin.words) \o <<"FF">>
        /\ fout.text # <<>>
        /\ fout.metric.raised = "none"

\* C21: with rotation disabled every projected corner of a recorded image
\* lies inside the recorded image: 0 <= x' <= width and 0 <= y' <= height
\* (the source corners of the corpus all lie inside their source image).
C21_ProjectedInsideOutput ==
    ~args.cfg.use_rotate /\ cur.stage = "recorded" =>
        \A i \in 1..Len(cur.word_boxes) :
           /\ \A j \in 1..Len(cur.word_boxes[i].src) :
                 /\ 0 <= cur.word_boxes[i].src[j][1]
                 /\ cur.word_boxes[i].src[j][1] <= cur.source_image.w
                 /\ 0 <= cur.word_boxes[i].src[j][2]
                 /\ cur.word_boxes[i].src[j][2] <= cur.source_image.h
           /\ \A j \in 1..Len(cur.word_boxes[i].corners) :
                 /\ 0 <= cur.word_boxes[i].corners[j][1]
                 /\ cur.word_boxes[i].corners[j][1]
                       <= output_index[cur.output_name].width
                 /\ 0 <= cur.word_boxes[i].corners[j][2]
                 /\ cur.word_boxes[i].corners[j][2]
                       <= output_index[cur.output_name].height

\* The inputs generate_clear_text_images accepts.
ClearAccepted ==
    /\ fin.text_file /\ fin.words # <<>> /\ fin.num_images > 0
    /\ fin.image_size[1] > 0 /\ fin.image_size[2] > 0

\* C22: on every input it accepts, whatever font_size, line_spacing and
\* border_margin are, the call eventually finishes, having written exactly
\* num_images image files and one annotations.json with num_images entries.
C22_ClearTerminates ==
    ClearAccepted =>
        <>(/\ fpc = "done"
           /\ fout.images = 0..(fin.num_images - 1)
           /\ fout.annotations = 0..(fin.num_images - 1)
           /\ fout.index_writes = 1)

====
